---- MODULE Spec2Model ----
(***************************************************************************)
(* The protected layout and the Agent component of                         *)
(* src/ai_mock_interviews/app/(root)/layout.tsx as a state machine.        *)
(*                                                                         *)
(* The Agent keeps three pieces of React state (callStatus, messages,      *)
(* isSpeaking), registers six listeners on the voice SDK, and has one      *)
(* effect that reacts to callStatus = FINISHED.  Every handler is one      *)
(* action; the render that follows a state change, and the effect that     *)
(* render schedules, are part of the handler's action (Commit).  The SDK   *)
(* is opaque: it may emit any event at any time.  Promises (vapi.start,    *)
(* createFeedback, Response.text) settle in separate actions.              *)
(***************************************************************************)
EXTENDS Integers, Sequences, FiniteSets, TLC

\* ---------------------------------------------------------------- bounds
\* the longest transcript buffer
MaxMsgs == 2
\* the most promises (vapi.start, Response.text, createFeedback) pending at once
MaxAsync == 2
\* the most router.push calls in a run
MaxNav == 1
\* the most handleSignOut calls in a run
MaxSignOuts == 2

\* ------------------------------------------------------------- constants
Undefined == "undefined"

INACTIVE == "INACTIVE"
CONNECTING == "CONNECTING"
ACTIVE == "ACTIVE"
FINISHED == "FINISHED"
CallStatus == {INACTIVE, CONNECTING, ACTIVE, FINISHED}

\* The props of one Agent instance that the handlers read.
interviewId == "iv1"
AgentTypes == {"generate", "feedback"}

\* Strings are tuples of one-character strings, so that trim() is computed.
Transcripts == {<<>>, <<" ">>, <<"a">>, <<" ", "a", " ">>}

\* The SDK's messages: with or without a transcript field.  Spoken text
\* comes with the role "user", blank text with no role.
RoleOf(t) == IF t \in {<<>>, <<" ">>} THEN Undefined ELSE "user"
VapiMessage ==
    { m \in [type : {"transcript", "status-update"},
             transcriptType : {"final", "partial"},
             transcript : Transcripts,
             role : {"user", Undefined}] : m.role = RoleOf(m.transcript) }
    \cup
    [type : {"transcript", "status-update"},
     transcriptType : {"final", "partial"},
     role : {"user", Undefined}]

HomeRoute == "/"
SignInRoute == "/sign-in"
FeedbackRoute == "/interview/" \o interviewId \o "/feedback"

\* What createFeedback can settle with: a result object, or a throw.
Throws == "throws"
FeedbackResults ==
    [outcome : {"resolves", Throws},
     success : BOOLEAN,
     feedbackId : {Undefined, "", "fb1"}]

VARIABLES
    type, WORKFLOW_ID, interviewer,      \* props and build-time constants
    callStatus, messages, isSpeaking,    \* useState
    starts,          \* flow ids of the vapi.start calls still pending
    reading,         \* handlers (onError, the catch of handleCall) suspended
                     \* in `await ....text()` before setCallStatus(INACTIVE)
    fbPending,       \* createFeedback invocations not yet settled
    transcript,      \* the transcript given to the latest createFeedback
    invoked,         \* createFeedback was invoked since the last handleCall
    pushes,          \* router.push targets, in order
    layoutPc, isUserAuthenticated, layoutDid,   \* the Layout server component
    last,            \* the handler that ran last
    variant, user,   \* which Navbar file is rendered, and its user prop
    isProfileOpen, isMobileMenuOpen,            \* useState of the Navbar
    signOuts,        \* handleSignOut calls suspended in `await signOut()`
    effects          \* what handleSignOut did: toasts, router calls, logs

vars == <<type, WORKFLOW_ID, interviewer, callStatus, messages, isSpeaking,
          starts, reading, fbPending, transcript, invoked,
          pushes, layoutPc, isUserAuthenticated, layoutDid, last,
          variant, user, isProfileOpen, isMobileMenuOpen, signOuts, effects>>

config == <<type, WORKFLOW_ID, interviewer>>
layoutVars == <<layoutPc, isUserAuthenticated, layoutDid>>
asyncVars == <<starts, reading>>
navbarVars == <<variant, user, isProfileOpen, isMobileMenuOpen, signOuts,
                effects>>

\* ---------------------------------------------------------------- helpers
Last(s) == s[Len(s)]

RECURSIVE TrimStart(_)
TrimStart(s) ==
    IF s # <<>> /\ Head(s) = " " THEN TrimStart(Tail(s)) ELSE s

RECURSIVE TrimEnd(_)
TrimEnd(s) ==
    IF s # <<>> /\ Last(s) = " " THEN TrimEnd(SubSeq(s, 1, Len(s) - 1)) ELSE s

\* String.prototype.trim
Trim(s) == TrimEnd(TrimStart(s))

\* JavaScript truthiness of an id that is a string or undefined
Truthy(v) == v # Undefined /\ v # ""

\* ------------------------------------------------------------------- Init
\* The id the Agent's type does not select is never read; it is present.
Init ==
    /\ type \in AgentTypes
    /\ WORKFLOW_ID \in {"", "workflow-1"}
    /\ interviewer \in {Undefined, "interviewer"}
    /\ type = "generate" => interviewer = "interviewer"
    /\ type # "generate" => WORKFLOW_ID = "workflow-1"
    /\ callStatus = INACTIVE
    /\ messages = <<>>
    /\ isSpeaking = FALSE
    /\ starts = <<>>
    /\ reading = 0
    /\ fbPending = 0
    /\ transcript = <<>>
    /\ invoked = FALSE
    /\ pushes = <<>>
    /\ layoutPc = "isAuthenticated"
    /\ isUserAuthenticated = FALSE
    /\ layoutDid = {}
    /\ last = "none"
    /\ variant = "Navbar.tsx"
    /\ user = "user-1"
    /\ isProfileOpen = FALSE
    /\ isMobileMenuOpen = FALSE
    /\ signOuts = 0
    /\ effects = <<>>

\* Promises not yet settled
Outstanding == Len(starts) + reading + fbPending

\* ----------------------------------------------------- the FINISHED effect
\* createFeedback({interviewId, userId, transcript: m, feedbackId}) is called.
InvokeCreateFeedback(m) ==
    /\ Outstanding < MaxAsync
    /\ fbPending' = fbPending + 1
    /\ transcript' = m
    /\ UNCHANGED pushes

RouterPush(route) ==
    /\ Len(pushes) < MaxNav
    /\ pushes' = Append(pushes, route)

\* Mutant: the mode test dropped, feedback generated in every mode.
FinishedEffect_FeedbackInEveryMode(s, m) ==
    IF s = FINISHED
    THEN InvokeCreateFeedback(m)
    ELSE UNCHANGED <<pushes, fbPending, transcript>>

\* The body of the second useEffect, run with the rendered status s and
\* the rendered buffer m.
FinishedEffect(s, m) ==
    IF s = FINISHED
    THEN IF type = "generate"
         THEN RouterPush(HomeRoute) /\ UNCHANGED <<fbPending, transcript>>
         ELSE InvokeCreateFeedback(m)
    ELSE UNCHANGED <<pushes, fbPending, transcript>>

\* Mutant: the dependency list without messages.
DepsChanged_StatusOnly(s, m) == s # callStatus

\* The effect's dependency list: of its entries only messages and
\* callStatus ever change.
DepsChanged(s, m) == s # callStatus \/ m # messages

\* A handler's state updates are committed in one render; the effect runs
\* after it when a dependency changed.  Setting a state to the value it has
\* (or returning prev from an updater) renders nothing.
Render(s, m) ==
    /\ callStatus' = s
    /\ messages' = m
    /\ IF DepsChanged(s, m)
       THEN FinishedEffect(s, m)
       ELSE UNCHANGED <<pushes, fbPending, transcript>>

Commit(s, m) ==
    /\ Render(s, m)
    /\ invoked' = (invoked \/ fbPending' > fbPending)

\* ------------------------------------------------------ SDK event handlers
onCallStart ==
    /\ Commit(ACTIVE, messages)
    /\ last' = "call-start"
    /\ UNCHANGED <<config, isSpeaking, asyncVars, layoutVars,
                   navbarVars>>

onCallEnd ==
    /\ Commit(FINISHED, messages)
    /\ last' = "call-end"
    /\ UNCHANGED <<config, isSpeaking, asyncVars, layoutVars,
                   navbarVars>>

\* Mutant: the transcriptType test dropped, partial transcripts kept too.
IsFinalTranscript_AnyTranscript(message) ==
    /\ message.type = "transcript"
    /\ "transcript" \in DOMAIN message

IsFinalTranscript(message) ==
    /\ message.type = "transcript"
    /\ message.transcriptType = "final"
    /\ "transcript" \in DOMAIN message

\* `last && last === trimmed`, last being the trimmed content of the last
\* entry, undefined for an empty buffer.
IsDuplicate(prev, trimmed) ==
    /\ prev # <<>>
    /\ Trim(Last(prev).content) # <<>>
    /\ Trim(Last(prev).content) = trimmed

\* Mutant: the new entry replaces the buffer instead of extending it.
AppendTranscript_Replaces(prev, message) ==
    LET trimmed == Trim(message.transcript) IN
    IF IsDuplicate(prev, trimmed)
    THEN prev
    ELSE <<[role |-> IF message.role = Undefined THEN "assistant"
                     ELSE message.role,
            content |-> trimmed]>>

\* The setMessages updater.
AppendTranscript(prev, message) ==
    LET trimmed == Trim(message.transcript) IN
    IF IsDuplicate(prev, trimmed)
    THEN prev
    ELSE Append(prev,
                [role |-> IF message.role = Undefined THEN "assistant"
                          ELSE message.role,
                 content |-> trimmed])

NextMessages(prev, message) ==
    IF IsFinalTranscript(message) THEN AppendTranscript(prev, message) ELSE prev

\* What the SDK sent, for the record of the last event: a final transcript
\* with a string in it, or any other message.
MessageKind(message) ==
    IF /\ "transcript" \in DOMAIN message
       /\ <<message.type, message.transcriptType>> = <<"transcript", "final">>
    THEN "final-transcript"
    ELSE "other-message"

onMessage(message) ==
    /\ Len(NextMessages(messages, message)) <= MaxMsgs
    /\ Commit(callStatus, NextMessages(messages, message))
    /\ last' = MessageKind(message)
    /\ UNCHANGED <<config, isSpeaking, asyncVars, layoutVars,
                   navbarVars>>

onSpeechStart ==
    /\ isSpeaking' = TRUE
    /\ last' = "speech-start"
    /\ UNCHANGED <<config, callStatus, messages, asyncVars, fbPending,
                   transcript, invoked, pushes, layoutVars,
                   navbarVars>>

onSpeechEnd ==
    /\ isSpeaking' = FALSE
    /\ last' = "speech-end"
    /\ UNCHANGED <<config, callStatus, messages, asyncVars, fbPending,
                   transcript, invoked, pushes, layoutVars,
                   navbarVars>>

\* Mutant: the error handler also clears the speaking indicator.
onError_StopsSpeaking(hasBody) ==
    /\ IF hasBody
       THEN /\ Outstanding < MaxAsync
            /\ reading' = reading + 1
            /\ UNCHANGED <<callStatus, messages, fbPending, transcript,
                           invoked, pushes>>
       ELSE /\ Commit(INACTIVE, messages)
            /\ UNCHANGED reading
    /\ isSpeaking' = FALSE
    /\ last' = "error"
    /\ UNCHANGED <<config, starts, layoutVars,
                   navbarVars>>

\* onError: when the error carries a Response the handler first awaits its
\* body (hasBody) and resets the status in a later step, else at once.
onError(hasBody) ==
    /\ IF hasBody
       THEN /\ Outstanding < MaxAsync
            /\ reading' = reading + 1
            /\ UNCHANGED <<callStatus, messages, fbPending, transcript,
                           invoked, pushes>>
       ELSE /\ Commit(INACTIVE, messages)
            /\ UNCHANGED reading
    /\ last' = "error"
    /\ UNCHANGED <<config, isSpeaking, starts, layoutVars,
                   navbarVars>>

\* `await error.text()` (onError) or `await e.text()` (the catch block of
\* handleCall) settles; either handler then ends with
\* setCallStatus(INACTIVE).
bodyRead ==
    /\ reading > 0
    /\ reading' = reading - 1
    /\ Commit(INACTIVE, messages)
    /\ last' = "body-read"
    /\ UNCHANGED <<config, isSpeaking, starts, layoutVars,
                   navbarVars>>

\* ------------------------------------------------------------ user actions
\* const flowId = type === "generate" ? WORKFLOW_ID : interviewer
FlowId == IF type = "generate" THEN WORKFLOW_ID ELSE interviewer

\* Mutant: the id is not validated.
FlowIdMissing_Unchecked(flowId) == FALSE

\* if (!flowId) { ...; return }
FlowIdMissing(flowId) == ~Truthy(flowId)

\* The call button is rendered while callStatus is not ACTIVE.  The two
\* setCallStatus calls of the early return are committed in one render.
handleCall ==
    /\ callStatus # ACTIVE
    /\ IF FlowIdMissing(FlowId)
       THEN /\ Commit(INACTIVE, messages)
            /\ UNCHANGED starts
       ELSE /\ Outstanding < MaxAsync
            /\ Render(CONNECTING, messages)
            /\ starts' = Append(starts, FlowId)
            /\ invoked' = FALSE
    /\ last' = "handleCall"
    /\ UNCHANGED <<config, isSpeaking, reading, layoutVars,
                   navbarVars>>

\* Mutant: a resolved start marks the call active itself.
startResolves_SetsActive ==
    /\ starts # <<>>
    /\ starts' = Tail(starts)
    /\ Commit(ACTIVE, messages)
    /\ last' = "start-resolved"
    /\ UNCHANGED <<config, isSpeaking, reading, layoutVars,
                   navbarVars>>

\* `await vapi.start(...)` resolves: nothing is set, the status is left to
\* the call-start event.
startResolves ==
    /\ starts # <<>>
    /\ starts' = Tail(starts)
    /\ last' = "start-resolved"
    /\ UNCHANGED <<config, callStatus, messages, isSpeaking, reading,
                   fbPending, transcript, invoked, pushes, layoutVars,
                   navbarVars>>

\* `await vapi.start(...)` rejects: the catch block logs, reads the body of
\* a Response it was thrown (hasBody), and resets the status.
startRejects(hasBody) ==
    /\ starts # <<>>
    /\ starts' = Tail(starts)
    /\ IF hasBody
       THEN /\ Outstanding < MaxAsync
            /\ reading' = reading + 1
            /\ UNCHANGED <<callStatus, messages, fbPending, transcript,
                           invoked, pushes>>
       ELSE /\ Commit(INACTIVE, messages)
            /\ UNCHANGED reading
    /\ last' = "start-rejected"
    /\ UNCHANGED <<config, isSpeaking, layoutVars,
                   navbarVars>>

\* setCallStatus(FINISHED), then setCallStatus(INACTIVE) when vapi.stop()
\* throws: both are committed in one render, the later value standing.
DisconnectStatus(stopThrows) == IF stopThrows THEN INACTIVE ELSE FINISHED

\* The End button is rendered while callStatus is ACTIVE.
handleDisconnect(stopThrows) ==
    /\ callStatus = ACTIVE
    /\ Commit(DisconnectStatus(stopThrows), messages)
    /\ last' = IF stopThrows THEN "disconnect-threw" ELSE "disconnect"
    /\ UNCHANGED <<config, isSpeaking, asyncVars, layoutVars,
                   navbarVars>>

\* ------------------------------------------------- handleGenerateFeedback
\* Mutant: the returned id is not tested.
FeedbackTarget_IgnoresId(result) ==
    IF result.outcome # Throws /\ result.success
    THEN FeedbackRoute
    ELSE HomeRoute

\* if (success && id) push the feedback page, else (and in catch) push "/".
FeedbackTarget(result) ==
    IF result.outcome # Throws /\ result.success /\ Truthy(result.feedbackId)
    THEN FeedbackRoute
    ELSE HomeRoute

\* The awaited createFeedback settles and handleGenerateFeedback continues.
createFeedbackSettles(result) ==
    /\ fbPending > 0
    /\ fbPending' = fbPending - 1
    /\ RouterPush(FeedbackTarget(result))
    /\ last' = IF FeedbackTarget(result) = FeedbackRoute
               THEN "feedback-saved" ELSE "feedback-failed"
    /\ UNCHANGED <<config, callStatus, messages, isSpeaking, asyncVars,
                   transcript, invoked, layoutVars,
                   navbarVars>>

\* ------------------------------------------------------------------ Layout
LayoutIsAuthenticated(result) ==
    /\ layoutPc = "isAuthenticated"
    /\ isUserAuthenticated' = result
    /\ layoutPc' = "check"
    /\ UNCHANGED layoutDid

\* Mutant: the redirect is issued but the function goes on.
LayoutCheck_RedirectReturns ==
    /\ layoutPc = "check"
    /\ IF ~isUserAuthenticated
       THEN layoutDid' = layoutDid \cup {"redirect " \o SignInRoute}
       ELSE UNCHANGED layoutDid
    /\ layoutPc' = "getCurrentUser"
    /\ UNCHANGED isUserAuthenticated

\* if (!isUserAuthenticated) redirect("/sign-in"): redirect() throws, so
\* the function does not continue.
LayoutCheck ==
    /\ layoutPc = "check"
    /\ IF ~isUserAuthenticated
       THEN /\ layoutDid' = layoutDid \cup {"redirect " \o SignInRoute}
            /\ layoutPc' = "redirected"
       ELSE /\ layoutPc' = "getCurrentUser"
            /\ UNCHANGED layoutDid
    /\ UNCHANGED isUserAuthenticated

LayoutGetCurrentUser ==
    /\ layoutPc = "getCurrentUser"
    /\ layoutDid' = layoutDid \cup {"getCurrentUser"}
    /\ layoutPc' = "return"
    /\ UNCHANGED isUserAuthenticated

LayoutReturn ==
    /\ layoutPc = "return"
    /\ layoutDid' = layoutDid \cup {"Navbar", "children"}
    /\ layoutPc' = "done"
    /\ UNCHANGED isUserAuthenticated

agentVars == <<config, callStatus, messages, isSpeaking, asyncVars, fbPending,
               transcript, invoked, pushes, last>>

Layout ==
    /\ \/ \E result \in BOOLEAN : LayoutIsAuthenticated(result)
       \/ LayoutCheck
       \/ LayoutGetCurrentUser
       \/ LayoutReturn
    /\ UNCHANGED <<agentVars, navbarVars>>

\* The Agent lives in the page the layout renders as {children}.
Mounted == "children" \in layoutDid

\* -------------------------------------------------------------------- Next
Next ==
    \/ Layout
    \/ Mounted /\ onCallStart
    \/ Mounted /\ onCallEnd
    \/ Mounted /\ \E message \in VapiMessage : onMessage(message)
    \/ Mounted /\ onSpeechStart
    \/ Mounted /\ onSpeechEnd
    \/ Mounted /\ \E hasBody \in BOOLEAN : onError(hasBody)
    \/ Mounted /\ bodyRead
    \/ Mounted /\ handleCall
    \/ Mounted /\ startResolves
    \/ Mounted /\ \E hasBody \in BOOLEAN : startRejects(hasBody)
    \/ Mounted /\ \E stopThrows \in BOOLEAN : handleDisconnect(stopThrows)
    \/ Mounted /\ \E result \in FeedbackResults : createFeedbackSettles(result)

Spec == Init /\ [][Next]_vars

TypeOK ==
    /\ callStatus \in CallStatus
    /\ Len(messages) <= MaxMsgs
    /\ isSpeaking \in BOOLEAN
    /\ Outstanding <= MaxAsync
    /\ Len(pushes) <= MaxNav

\* ------------------------------------------------------------------ Navbar
\* The Navbar of components/Navbar.tsx has a mobile menu; the other Navbar
\* file of the repository is the same component without it.
NavbarVariants == {"Navbar.tsx", "part_000"}
HasMobileMenu == variant = "Navbar.tsx"

\* user is the prop the layout passes: an object, or null.
Null == "null"
Users == {Null, "user-1"}

\* The statements after `await signOut()`, in order.
SignedOut ==
    <<"toast.success", "router.push " \o SignInRoute, "router.refresh">>

\* Mutant: the navigation moved after the try/catch, so it runs on failure too.
SignOutFailed_StillNavigates ==
    <<"console.error", "toast.error", "router.push " \o SignInRoute,
      "router.refresh">>

\* The statements of the catch block, in order.
SignOutFailed == <<"console.error", "toast.error">>

\* handleSignOut calls made so far: those pending and those that finished
\* with a toast.
Toasts == {i \in 1..Len(effects) : effects[i] \in {"toast.success", "toast.error"}}
SignOutCalls == signOuts + Cardinality(Toasts)

\* The profile button, rendered when there is a user.
toggleProfile ==
    /\ user # Null
    /\ isProfileOpen' = ~isProfileOpen
    /\ last' = "toggle-profile"
    /\ UNCHANGED <<variant, user, isMobileMenuOpen, signOuts, effects>>

\* The menu button of the mobile layout.
toggleMobileMenu ==
    /\ HasMobileMenu
    /\ isMobileMenuOpen' = ~isMobileMenuOpen
    /\ last' = "toggle-menu"
    /\ UNCHANGED <<variant, user, isProfileOpen, signOuts, effects>>

\* A link of the open mobile menu closes it.
mobileLink ==
    /\ HasMobileMenu
    /\ isMobileMenuOpen
    /\ isMobileMenuOpen' = FALSE
    /\ last' = "mobile-link"
    /\ UNCHANGED <<variant, user, isProfileOpen, signOuts, effects>>

\* handleSignOut up to `await signOut()`.
handleSignOut ==
    /\ SignOutCalls < MaxSignOuts
    /\ signOuts' = signOuts + 1
    /\ UNCHANGED <<variant, user, effects>>

\* The Sign Out button of the open profile dropdown.
desktopSignOut ==
    /\ user # Null
    /\ isProfileOpen
    /\ handleSignOut
    /\ last' = "handleSignOut"
    /\ UNCHANGED <<isProfileOpen, isMobileMenuOpen>>

\* The Sign Out button of the open mobile menu: handleSignOut(), then
\* setIsMobileMenuOpen(false).
mobileSignOut ==
    /\ HasMobileMenu
    /\ user # Null
    /\ isMobileMenuOpen
    /\ handleSignOut
    /\ isMobileMenuOpen' = FALSE
    /\ last' = "handleSignOut"
    /\ UNCHANGED isProfileOpen

\* signOut() resolves and handleSignOut continues in its try block.
signOutResolves ==
    /\ signOuts > 0
    /\ signOuts' = signOuts - 1
    /\ effects' = effects \o SignedOut
    /\ last' = "signOut-resolved"
    /\ UNCHANGED <<variant, user, isProfileOpen, isMobileMenuOpen>>

\* signOut() throws and handleSignOut continues in its catch block.
signOutThrows ==
    /\ signOuts > 0
    /\ signOuts' = signOuts - 1
    /\ effects' = effects \o SignOutFailed
    /\ last' = "signOut-threw"
    /\ UNCHANGED <<variant, user, isProfileOpen, isMobileMenuOpen>>

\* The Navbar alone, as the layout rendered it for a signed-in request:
\* either file, with or without a user.
NavbarInit ==
    /\ type = "feedback"
    /\ WORKFLOW_ID = "workflow-1"
    /\ interviewer = "interviewer"
    /\ callStatus = INACTIVE
    /\ messages = <<>>
    /\ isSpeaking = FALSE
    /\ starts = <<>>
    /\ reading = 0
    /\ fbPending = 0
    /\ transcript = <<>>
    /\ invoked = FALSE
    /\ pushes = <<>>
    /\ layoutPc = "done"
    /\ isUserAuthenticated = TRUE
    /\ layoutDid = {"getCurrentUser", "Navbar", "children"}
    /\ last = "none"
    /\ variant \in NavbarVariants
    /\ user \in Users
    /\ isProfileOpen = FALSE
    /\ isMobileMenuOpen = FALSE
    /\ signOuts = 0
    /\ effects = <<>>

\* The Navbar's handlers touch nothing of the Agent or the Layout.
NavbarOnly ==
    UNCHANGED <<config, callStatus, messages, isSpeaking, asyncVars,
                fbPending, transcript, invoked, pushes, layoutVars>>

NavbarNext ==
    \/ toggleProfile /\ NavbarOnly
    \/ toggleMobileMenu /\ NavbarOnly
    \/ mobileLink /\ NavbarOnly
    \/ desktopSignOut /\ NavbarOnly
    \/ mobileSignOut /\ NavbarOnly
    \/ signOutResolves /\ NavbarOnly
    \/ signOutThrows /\ NavbarOnly

NavbarSpec == NavbarInit /\ [][NavbarNext]_vars

\* ================================================================== claims

\* C1: after any sequence of 'message' events the transcript buffer never
\* holds two adjacent entries with the same content, whatever the transcript
\* (the empty and the whitespace-only transcript included).
C1_NoAdjacentDuplicates ==
    \A i \in 1..(Len(messages) - 1) :
        messages[i].content # messages[i + 1].content

\* C2 as claimed: in feedback mode, every end of the call, by 'call-end' or
\* by handleDisconnect, has createFeedback invoked with the buffer held at
\* that moment.
EndedBy == {"call-end", "disconnect", "disconnect-threw"}
C2_FeedbackOnEveryEnd ==
    (type # "generate" /\ last \in EndedBy)
        => (invoked /\ transcript = messages)

\* C2 as amended: in feedback mode, a 'call-end' event, and a handleDisconnect
\* whose vapi.stop() returns, leave callStatus FINISHED with createFeedback
\* invoked on the buffer held at that moment; a handleDisconnect whose
\* vapi.stop() throws leaves callStatus INACTIVE and invokes nothing.
C2_FeedbackOnEnd ==
    [][type # "generate" =>
        /\ last' \in {"call-end", "disconnect"} =>
              /\ callStatus' = FINISHED
              /\ invoked'
              /\ transcript' = messages'
        /\ last' = "disconnect-threw" =>
              /\ callStatus' = INACTIVE
              /\ fbPending' = fbPending
              /\ transcript' = transcript
              /\ invoked' = invoked]_vars

C2_Witness ==
    /\ type = "feedback"
    /\ last = "disconnect"
    /\ callStatus = FINISHED
    /\ fbPending > 0
    /\ messages # <<>>
    /\ transcript = messages

\* C3: for one call, createFeedback is invoked at most once: once it has
\* been invoked since the call was started, no later step invokes it again.
C3_FeedbackOncePerCall ==
    [][invoked => fbPending' <= fbPending]_vars

\* C4 as claimed: every change of callStatus is made by a handler of an SDK
\* event; no user action changes it.  (The resumed body read is counted with
\* the SDK handlers here.)
SdkHandlers ==
    {"call-start", "call-end", "final-transcript", "other-message",
     "speech-start",
     "speech-end", "error", "body-read"}
C4_OnlySdkEventsChangeStatus ==
    [][callStatus' # callStatus => last' \in SdkHandlers]_vars

\* C4 as amended: callStatus is changed only by onCallStart (to ACTIVE),
\* onCallEnd (to FINISHED), onError and the failure paths of the user actions
\* (to INACTIVE), handleCall (to CONNECTING, or INACTIVE for a missing id) and
\* handleDisconnect (to FINISHED); messages, speech events, a resolved start
\* and a settled createFeedback never change it.
C4_StatusChangers ==
    [][callStatus' # callStatus =>
        \/ last' = "call-start" /\ callStatus' = ACTIVE
        \/ last' = "call-end" /\ callStatus' = FINISHED
        \/ last' = "disconnect" /\ callStatus' = FINISHED
        \/ last' = "handleCall" /\ callStatus' \in {CONNECTING, INACTIVE}
        \/ /\ last' \in {"error", "body-read", "start-rejected",
                          "disconnect-threw"}
           /\ callStatus' = INACTIVE]_vars

C4_Witness ==
    /\ last = "handleCall"
    /\ callStatus = CONNECTING
    /\ starts # <<>>

\* C5 as claimed: on every failure path (the 'error' event, vapi.start
\* rejecting, vapi.stop throwing, createFeedback failing or throwing) the one
\* state effect is callStatus = INACTIVE; buffer and isSpeaking are kept and
\* nothing is navigated to.  A handler suspended in a body read has not
\* finished its path yet.
FailureSteps == {"error", "body-read", "start-rejected", "disconnect-threw"}
C5_FailureOnlyResetsStatus ==
    [][(last' \in FailureSteps \cup {"feedback-failed"} /\ reading' <= reading)
        => /\ callStatus' = INACTIVE
           /\ messages' = messages
           /\ isSpeaking' = isSpeaking
           /\ pushes' = pushes]_vars

\* C5 as amended: the 'error' event, a rejected vapi.start and a throwing
\* vapi.stop only set callStatus to INACTIVE; a failed or throwing
\* createFeedback leaves callStatus as it is and navigates to "/".
C5_FailurePaths ==
    [][/\ (last' \in FailureSteps /\ reading' <= reading)
           => /\ callStatus' = INACTIVE
              /\ messages' = messages
              /\ isSpeaking' = isSpeaking
              /\ pushes' = pushes
              /\ fbPending' = fbPending
       /\ last' = "feedback-failed"
           => /\ callStatus' = callStatus
              /\ messages' = messages
              /\ isSpeaking' = isSpeaking
              /\ pushes' = Append(pushes, HomeRoute)]_vars

C5_Witness ==
    /\ last = "feedback-failed"
    /\ callStatus = FINISHED
    /\ isSpeaking
    /\ messages # <<>>
    /\ pushes = <<HomeRoute>>

\* C6: with type "generate" a FINISHED call has navigated to "/" and
\* createFeedback is never invoked; with any other type a FINISHED call has
\* invoked createFeedback, and every navigation is the step in which a
\* createFeedback invocation settles.
C6_ModeDecides ==
    [][/\ type = "generate" =>
            /\ fbPending' = 0 /\ ~invoked'
            /\ callStatus' = FINISHED =>
                  (pushes' # <<>> /\ Last(pushes') = HomeRoute)
       /\ type # "generate" =>
            /\ callStatus' = FINISHED => invoked'
            /\ pushes' # pushes => fbPending' = fbPending - 1]_vars

C6_Witness ==
    /\ type = "generate"
    /\ callStatus = FINISHED
    /\ last = "disconnect"
    /\ pushes = <<HomeRoute>>

\* C7: Navbar and children are rendered only when isAuthenticated() returned
\* true; when it returned false the layout redirects to "/sign-in" and neither
\* calls getCurrentUser nor renders anything.
C7_OnlySignedIn ==
    /\ (layoutDid \cap {"Navbar", "children", "getCurrentUser"} # {})
           => isUserAuthenticated
    /\ (layoutPc \notin {"isAuthenticated", "check"} /\ ~isUserAuthenticated)
           => (layoutPc = "redirected" /\ layoutDid = {"redirect /sign-in"})

C7_Witness ==
    /\ layoutPc = "redirected"
    /\ ~isUserAuthenticated
    /\ layoutDid = {"redirect /sign-in"}

\* C8: when createFeedback settles, one navigation follows: to
\* /interview/{interviewId}/feedback when the result has success true and a
\* non-empty feedbackId, to "/" when it is unsuccessful, lacks an id or
\* createFeedback threw.
C8_OneNavigationPerFeedback ==
    [][last' \in {"feedback-saved", "feedback-failed"} =>
       \A result \in FeedbackResults :
          createFeedbackSettles(result) =>
             pushes' = Append(pushes,
                 IF /\ result.outcome = "resolves"
                    /\ result.success
                    /\ result.feedbackId \notin {"", Undefined}
                 THEN "/interview/iv1/feedback"
                 ELSE "/")]_vars

C8_Witness ==
    /\ type = "feedback"
    /\ last = "feedback-saved"
    /\ pushes = <<"/interview/iv1/feedback">>

\* C9: a 'message' event changes the buffer only when its type is
\* "transcript", its transcriptType "final" and its transcript a string; and
\* no 'message' event changes callStatus or isSpeaking.
C9_OnlyFinalTranscripts ==
    [][last' \in {"final-transcript", "other-message"} =>
          /\ callStatus' = callStatus
          /\ isSpeaking' = isSpeaking
          /\ last' = "other-message" => messages' = messages]_vars

C9_Witness ==
    /\ last = "other-message"
    /\ messages # <<>>
    /\ callStatus = ACTIVE
    /\ isSpeaking

\* C10: vapi.start is never called with an empty id; a handleCall whose id
\* is empty ends with callStatus INACTIVE, the buffer unchanged and no start
\* issued.
C10_IdValidated ==
    [][/\ \A i \in 1..Len(starts') : starts'[i] \notin {"", Undefined}
       /\ (last' = "handleCall" /\ FlowId \in {"", Undefined})
            => /\ callStatus' = INACTIVE
               /\ messages' = messages
               /\ starts' = starts]_vars

C10_Witness ==
    /\ last = "handleCall"
    /\ FlowId \in {"", Undefined}
    /\ callStatus = INACTIVE
    /\ messages # <<>>
    /\ starts = <<>>

\* C11: at most one start request is outstanding: no handleCall issues a
\* vapi.start while an earlier vapi.start is pending, nor while a
\* createFeedback invocation of the previous call is unsettled.
C11_OneStartAtATime ==
    [][Len(starts') > Len(starts) => (starts = <<>> /\ fbPending = 0)]_vars

\* C12: the transcript buffer is append-only: across every step, whatever
\* the event or user action, the buffer before is a prefix of the buffer
\* after; and every createFeedback invocation is given the whole buffer,
\* the lines of earlier calls included.
IsPrefix(a, b) == Len(a) <= Len(b) /\ SubSeq(b, 1, Len(a)) = a
C12_AppendOnly ==
    [][/\ IsPrefix(messages, messages')
       /\ fbPending' > fbPending => transcript' = messages']_vars

\* A second call is started after the first one ended and its feedback
\* settled, with the first call's lines still in the buffer.
C12_Witness ==
    /\ type = "feedback"
    /\ last = "handleCall"
    /\ callStatus = CONNECTING
    /\ starts # <<>>
    /\ messages # <<>>
    /\ pushes # <<>>

\* C13: when signOut() resolves, handleSignOut shows the success toast, then
\* pushes "/sign-in", then refreshes, in that order; when signOut() throws it
\* logs, shows the error toast and calls neither router.push nor
\* router.refresh.  Both Navbar files behave so.
C13_SignOutNavigatesOnSuccess ==
    [][/\ last' = "signOut-resolved" =>
            effects' = effects \o
                <<"toast.success", "router.push /sign-in", "router.refresh">>
       /\ last' = "signOut-threw" =>
            /\ Len(effects') > Len(effects)
            /\ SubSeq(effects', 1, Len(effects)) = effects
            /\ \A i \in (Len(effects) + 1)..Len(effects') :
                  effects'[i] \in {"console.error", "toast.error"}
            /\ Last(effects') = "toast.error"]_vars

\* One sign-out succeeded and a later one failed, in the Navbar without the
\* mobile menu.
C13_Witness ==
    /\ variant = "part_000"
    /\ last = "signOut-threw"
    /\ effects = <<"toast.success", "router.push /sign-in", "router.refresh",
                   "console.error", "toast.error">>

====
